---- MODULE Spec2Model ----
(***************************************************************************)
(* A model of tb_gen.py, the VHDL test bench generator: TestBench.load     *)
(* followed by TestBench.generate, and the behaviour of the two processes  *)
(* of the VHDL text it emits (the clock process and the test bench         *)
(* process) under a simulator.                                             *)
(*                                                                         *)
(* A Python dict is an ordered mapping with unique keys: a pin dict is a   *)
(* sequence of [name, width] records with distinct names.  A value that    *)
(* may be None or missing is a sequence of length 0 or 1.  Text is kept    *)
(* as TLA+ strings; a statement of the emitted VHDL is a record of the     *)
(* pieces that str.format puts into its template.                          *)
(***************************************************************************)
EXTENDS Integers, Sequences, FiniteSets, TLC

VARIABLES
    json_file,   \* what json.load returns for the test case file
    data,        \* self.data (<<>> until load has assigned it)
    pc,          \* where the __main__ script is
    err,         \* the exception that ended the script, "" if none
    out_file,    \* the VHDL file: [opened, text]
    sim          \* the simulator's state once the VHDL file is simulated

vars == <<json_file, data, pc, err, out_file, sim>>

----------------------------------------------------------------------------
(* Bounds of the inputs drawn in Init.                                     *)

MaxWidth == 2
MaxInPins == 1
MaxVectors == 2
MaxWait == 2
MaxPeriod == 4
MaxTime == 22

None == <<>>
Some(v) == <<v>>

PinNames == {"a", "b"}
ClockNames == {"clk", "a"}
Widths == {None} \cup {Some(w) : w \in (-1)..MaxWidth}
Values == {"1", "10"}
WaitCodes == {None} \cup {Some(c) : c \in (-MaxWait)..MaxWait}

----------------------------------------------------------------------------
(* Python helpers.                                                         *)

\* bool(w) for a width: None and 0 are falsy, any other integer is truthy
Truthy(w) == w # None /\ w[1] # 0

\* dict.keys()
KeySet(d) == {d[i].name : i \in 1..Len(d)}

\* d[k] for a key the dict has
Lookup(d, k) == (CHOOSE i \in 1..Len(d) : d[i].name = k)
Width(d, k) == d[Lookup(d, k)].width

\* the entries of d whose key is not in ks, in d's order
RECURSIVE SelectNotIn(_, _)
SelectNotIn(d, ks) ==
    IF d = <<>> THEN <<>>
    ELSE IF Head(d).name \in ks THEN SelectNotIn(Tail(d), ks)
         ELSE <<Head(d)>> \o SelectNotIn(Tail(d), ks)

\* dict(a, **b): a's keys in a's order, then b's new keys; b's values win
DictMerge(a, b) ==
    [i \in 1..Len(a) |->
        IF a[i].name \in KeySet(b)
        THEN [name |-> a[i].name, width |-> Width(b, a[i].name)]
        ELSE a[i]]
    \o SelectNotIn(b, KeySet(a))

\* an exception leaving a function is the record [raise |-> its name]
Raise(e) == [raise |-> e]
Raised(r) == "raise" \in DOMAIN r

----------------------------------------------------------------------------
(* TestBench.load                                                          *)

\* QuoteValue with the two kinds of quotes exchanged
QuoteValue_Swapped(w, v) == IF Truthy(w) THEN "'" \o v \o "'" ELSE "\"" \o v \o "\""

\* the f-string of __quote_pin_values
QuoteValue(w, v) == IF Truthy(w) THEN "\"" \o v \o "\"" ELSE "'" \o v \o "'"

\* __quote_pin_values on one test case t: t[p] is read for every pin
QuoteTestCase(pins, t) ==
    [t EXCEPT !.vals =
        [k \in DOMAIN t.vals |->
            IF k \in KeySet(pins) THEN QuoteValue(Width(pins, k), t.vals[k])
            ELSE t.vals[k]]]

\* __quote_pin_values: KeyError when a test case lacks a pin's value
QuotePinValues(d) ==
    LET pins == DictMerge(d.input_pins, d.output_pins)
    IN  IF \E i \in 1..Len(d.test_cases) : ~(KeySet(pins) \subseteq DOMAIN d.test_cases[i].vals)
        THEN Raise("KeyError")
        ELSE [d EXCEPT !.test_cases =
                [i \in 1..Len(d.test_cases) |-> QuoteTestCase(pins, d.test_cases[i])]]

\* the clock pin in the format of the input and output pin dicts
ClockPinDict(d) ==
    IF d.clocked THEN <<[name |-> d.clock_pin, width |-> None]>> ELSE <<>>

\* load: self.data is the parsed file with the values quoted and the clock
\* pin made a dict.  An exception leaves load and ends the script, so what
\* self.data held by then is never read.
Load ==
    /\ pc = "start"
    /\ LET q == QuotePinValues(json_file)
       IN  IF Raised(q)
           THEN /\ pc' = "failed"
                /\ err' = q.raise
                /\ data' = data
           ELSE /\ pc' = "loaded"
                /\ err' = err
                /\ data' = [q EXCEPT !.clock_pin = ClockPinDict(q)]
    /\ UNCHANGED <<json_file, out_file, sim>>

----------------------------------------------------------------------------
(* TestBench.generate                                                      *)

FIXED_WAIT_NS == 10

\* __generate_internal_signal_declarations: one declaration per entry of
\* the three dicts, input pins, clock pin, output pins
SignalType(w) ==
    IF Truthy(w)
    THEN [type |-> "std_logic_vector", left |-> w[1] - 1, right |-> 0]
    ELSE [type |-> "std_logic"]

SignalDeclaration(p) == [signal |-> "tb_" \o p.name, subtype |-> SignalType(p.width)]

GenerateInternalSignalDeclarations(d) ==
    LET s == d.input_pins \o d.clock_pin \o d.output_pins
    IN  [i \in 1..Len(s) |-> SignalDeclaration(s[i])]

\* __generate_port_map: the entries joined by ",\n", and ",\n" after the
\* last one unless the text is empty or end is set.  sep is what follows
\* the entry in the text.
GeneratePortMap(pins, end) ==
    [i \in 1..Len(pins) |->
        [port |-> pins[i].name,
         actual |-> "tb_" \o pins[i].name,
         sep |-> IF i < Len(pins) \/ ~end THEN "," ELSE ""]]

\* __generate_uut_instantiation
GenerateUutInstantiation(d) ==
    [entity |-> <<d.library, d.entity, d.architecture>>,
     generic_map |-> d.generic_params,
     port_map |-> GeneratePortMap(d.input_pins, FALSE)
                  \o GeneratePortMap(d.clock_pin, FALSE)
                  \o GeneratePortMap(d.output_pins, TRUE)]

\* __generate_clock_process: the two format arguments of __CLK_PROC_TEMPLATE
GenerateClockProcess(d) ==
    [clk |-> "tb_" \o d.clock_pin[1].name, half |-> d.clock_period \div 2]

\* NextIterClockPin with a default instead of StopIteration
NextIterClockPin_Default(d) ==
    IF d.clock_pin = <<>> THEN [key |-> "clk"] ELSE [key |-> d.clock_pin[1].name]

\* next(iter(self.data["clock_pin"]))
NextIterClockPin(d) ==
    IF d.clock_pin = <<>> THEN Raise("StopIteration") ELSE [key |-> d.clock_pin[1].name]

\* GenerateWaitStatement without the negation of a negative code
GenerateWaitStatement_Signed(d, code) ==
    IF code # 0
    THEN LET k == NextIterClockPin(d)
         IN  IF Raised(k) THEN k
             ELSE [call |-> "wait_until_clk_edges", clk |-> "tb_" \o k.key,
                   n |-> code, rising |-> code > 0]
    ELSE [call |-> "wait for", n |-> FIXED_WAIT_NS]

\* __generate_wait_statement
GenerateWaitStatement(d, code) ==
    IF code > 0
    THEN LET k == NextIterClockPin(d)
         IN  IF Raised(k) THEN k
             ELSE [call |-> "wait_until_clk_edges", clk |-> "tb_" \o k.key,
                   n |-> code, rising |-> TRUE]
    ELSE IF code < 0
    THEN LET k == NextIterClockPin(d)
         IN  IF Raised(k) THEN k
             ELSE [call |-> "wait_until_clk_edges", clk |-> "tb_" \o k.key,
                   n |-> -code, rising |-> FALSE]
    ELSE [call |-> "wait for", n |-> FIXED_WAIT_NS]

\* the comparisons of one test case's output pins, joined by a connective
Condition(d, t, rel, join) ==
    [join |-> join,
     terms |-> [i \in 1..Len(d.output_pins) |->
                   [signal |-> "tb_" \o d.output_pins[i].name, rel |-> rel,
                    lit |-> t.vals[d.output_pins[i].name]]]]

\* GenerateTestCase with the if condition joined by "and"
GenerateTestCase_AndGuard(d, num) ==
    LET t == d.test_cases[num + 1]
        assigns == [i \in 1..Len(d.input_pins) |->
                       [signal |-> "tb_" \o d.input_pins[i].name,
                        lit |-> t.vals[d.input_pins[i].name]]]
    IN  IF t.wait = None THEN Raise("KeyError")
        ELSE LET w == GenerateWaitStatement(d, t.wait[1])
             IN  IF Raised(w) THEN w
                 ELSE [comment |-> num,
                       assigns |-> assigns,
                       wait |-> w,
                       assert |-> Condition(d, t, "=", "and"),
                       report |-> num,
                       severity |-> "error",
                       guard |-> Condition(d, t, "/=", "and")]

\* __generate_test_case for the 0-based index num
GenerateTestCase(d, num) ==
    LET t == d.test_cases[num + 1]
        assigns == [i \in 1..Len(d.input_pins) |->
                       [signal |-> "tb_" \o d.input_pins[i].name,
                        lit |-> t.vals[d.input_pins[i].name]]]
    IN  IF t.wait = None THEN Raise("KeyError")
        ELSE LET w == GenerateWaitStatement(d, t.wait[1])
             IN  IF Raised(w) THEN w
                 ELSE [comment |-> num,
                       assigns |-> assigns,
                       wait |-> w,
                       assert |-> Condition(d, t, "=", "and"),
                       report |-> num,
                       severity |-> "error",
                       guard |-> Condition(d, t, "/=", "or")]

\* GenerateTestCases over the indices in descending order
GenerateTestCases_Reversed(d) ==
    LET n == Len(d.test_cases)
        blocks == [i \in 1..n |-> GenerateTestCase(d, n - i)]
        bad == {i \in 1..Len(blocks) : Raised(blocks[i])}
    IN  IF bad # {}
        THEN blocks[CHOOSE i \in bad : \A j \in bad : i <= j]
        ELSE [blocks |-> blocks]

\* __generate_test_cases: range(len(test_cases)) in order; the first
\* exception ends the comprehension
GenerateTestCases(d) ==
    LET blocks == [i \in 1..Len(d.test_cases) |-> GenerateTestCase(d, i - 1)]
        bad == {i \in 1..Len(blocks) : Raised(blocks[i])}
    IN  IF bad # {}
        THEN blocks[CHOOSE i \in bad : \A j \in bad : i <= j]
        ELSE [blocks |-> blocks]

\* the text generate builds, section by section
GenerateResult(d) ==
    LET tcs == GenerateTestCases(d)
    IN  IF Raised(tcs) THEN tcs
        ELSE [header |-> [library |-> d.library, entity |-> d.entity \o "_tb",
                          architecture |-> d.architecture],
              clk_wait_prcd |-> d.clocked,
              signals |-> GenerateInternalSignalDeclarations(d),
              uut |-> GenerateUutInstantiation(d),
              clock_process |-> IF d.clocked THEN <<GenerateClockProcess(d)>> ELSE <<>>,
              test_cases |-> tcs.blocks,
              footer |-> [pass |-> "note", fail |-> "error"]]

\* generate: the whole text is built before open(filename, 'w'), so an
\* exception while building it ends the script with the file untouched.
\* indent_string only lays the text out; statements are kept unindented.
Generate ==
    /\ pc = "loaded"
    /\ LET result == GenerateResult(data)
       IN  IF Raised(result)
           THEN /\ pc' = "failed"
                /\ err' = result.raise
                /\ out_file' = out_file
           ELSE /\ pc' = "written"
                /\ err' = err
                /\ out_file' = [opened |-> TRUE, text |-> <<result>>]
    /\ UNCHANGED <<json_file, data, sim>>

----------------------------------------------------------------------------
(* The emitted VHDL under a simulator: the clock process of                *)
(* __CLK_PROC_TEMPLATE and the test bench process of __TB_PROC_HEADER, the *)
(* test case blocks and __FOOTER.  Time is in ns.  A signal starts as 'U'. *)

SimOff ==
    [on |-> FALSE, now |-> 0,
     clk |-> "'U'", clk_next |-> "'0'", clk_wake |-> 0, clk_low_at |-> -1, clk_cycle |-> -1,
     tb_case |-> 0, tb_at |-> "begin", tb_wake |-> 0, tb_edges |-> 0,
     driven |-> <<>>, fail_count |-> 0, reports |-> <<>>]

Text == out_file.text[1]
Clocked == Text.clock_process # <<>>

\* the simulator elaborates the written file: fail_count := 0, both
\* processes are ready to run at time 0
SimStart ==
    /\ pc = "written"
    /\ ~sim.on
    /\ sim' = [SimOff EXCEPT !.on = TRUE]
    /\ UNCHANGED <<json_file, data, pc, err, out_file>>

\* rising_edge and falling_edge of std_logic_1164 on a change of the clock
RisingEdge(old, new) == old = "'0'" /\ new = "'1'"
FallingEdge(old, new) == old = "'1'" /\ new = "'0'"

\* The clock process runs to its next wait: it drives the clock and waits
\* half ns.  A test bench process inside wait_until_clk_edges sees the edge:
\* one iteration of the procedure's loop ends.
ClockProcess ==
    /\ sim.on /\ Clocked
    /\ sim.clk_wake = sim.now
    /\ LET new == sim.clk_next
           seen == /\ sim.tb_at = "edges"
                   /\ sim.tb_edges > 0
                   /\ IF Text.test_cases[sim.tb_case].wait.rising
                      THEN RisingEdge(sim.clk, new)
                      ELSE FallingEdge(sim.clk, new)
       IN  sim' = [sim EXCEPT
                !.clk = new,
                !.clk_next = IF new = "'0'" THEN "'1'" ELSE "'0'",
                !.clk_wake = sim.now + Text.clock_process[1].half,
                !.clk_low_at = IF new = "'0'" THEN sim.now ELSE @,
                !.clk_cycle = IF new = "'0'" /\ sim.clk_low_at >= 0
                              THEN sim.now - sim.clk_low_at ELSE @,
                !.tb_edges = IF seen THEN @ - 1 ELSE @]
    /\ UNCHANGED <<json_file, data, pc, err, out_file>>

\* The test bench process reaches the next test case: the input signal
\* assignments, then the wait statement.
TbStimulus ==
    /\ sim.on
    /\ sim.tb_at = "begin"
    /\ sim.tb_case < Len(Text.test_cases)
    /\ LET b == Text.test_cases[sim.tb_case + 1]
       IN  sim' = [sim EXCEPT
                !.tb_case = @ + 1,
                !.driven = [i \in 1..Len(b.assigns) |-> b.assigns[i]],
                !.tb_at = IF b.wait.call = "wait for" THEN "for" ELSE "edges",
                !.tb_wake = IF b.wait.call = "wait for" THEN sim.now + b.wait.n ELSE @,
                !.tb_edges = IF b.wait.call = "wait for" THEN @ ELSE b.wait.n]
    /\ UNCHANGED <<json_file, data, pc, err, out_file>>

\* a condition of the emitted text on the signal values obs
EvalTerm(term, obs) ==
    IF term.rel = "=" THEN obs[term.signal] = term.lit ELSE obs[term.signal] # term.lit

EvalCondition(cond, obs) ==
    IF cond.join = "and"
    THEN \A i \in 1..Len(cond.terms) : EvalTerm(cond.terms[i], obs)
    ELSE \E i \in 1..Len(cond.terms) : EvalTerm(cond.terms[i], obs)

\* the values the unit under test may show on the output signals
Observations(b) ==
    LET sigs == {b.assert.terms[i].signal : i \in 1..Len(b.assert.terms)}
        lits == {b.assert.terms[i].lit : i \in 1..Len(b.assert.terms)}
    IN  [sigs -> lits \cup {"'U'"}]

\* The wait of the current test case is over: the assert statement reports
\* when its condition is false, the if statement counts when its condition
\* is true, and the process goes on to the next test case.
TbCheck ==
    /\ sim.on
    /\ \/ sim.tb_at = "for" /\ sim.tb_wake = sim.now
       \/ sim.tb_at = "edges" /\ sim.tb_edges = 0
    /\ LET b == Text.test_cases[sim.tb_case]
       IN  \E obs \in Observations(b) :
             sim' = [sim EXCEPT
                !.tb_at = "begin",
                !.reports = IF EvalCondition(b.assert, obs) THEN @
                            ELSE Append(@, [report |-> "Test case failed!", num |-> b.report,
                                            severity |-> b.severity]),
                !.fail_count = IF EvalCondition(b.guard, obs) THEN @ + 1 ELSE @]
    /\ UNCHANGED <<json_file, data, pc, err, out_file>>

\* __FOOTER: after the last test case the overall report, then "wait;"
TbFooter ==
    /\ sim.on
    /\ sim.tb_at = "begin"
    /\ sim.tb_case = Len(Text.test_cases)
    /\ sim' = [sim EXCEPT
            !.tb_at = "suspended",
            !.reports = Append(@,
                IF sim.fail_count = 0
                THEN [report |-> "All tests passed!", num |-> -1, severity |-> Text.footer.pass]
                ELSE [report |-> "Testbench failed!", num |-> -1, severity |-> Text.footer.fail])]
    /\ UNCHANGED <<json_file, data, pc, err, out_file>>

\* No process can run at the current time: the simulator advances time to
\* the earliest pending wake-up.
Advance ==
    /\ sim.on
    /\ sim.tb_at \in {"for", "edges", "suspended"}
    /\ sim.tb_at = "for" => sim.tb_wake > sim.now
    /\ sim.tb_at = "edges" => sim.tb_edges > 0
    /\ Clocked => sim.clk_wake > sim.now
    /\ LET wakes == (IF Clocked THEN {sim.clk_wake} ELSE {})
                    \cup (IF sim.tb_at = "for" THEN {sim.tb_wake} ELSE {})
       IN  /\ wakes # {}
           /\ LET t == CHOOSE w \in wakes : \A v \in wakes : w <= v
              IN  /\ t <= MaxTime
                  /\ sim' = [sim EXCEPT !.now = t]
    /\ UNCHANGED <<json_file, data, pc, err, out_file>>

----------------------------------------------------------------------------
(* The test case files the script is run on.                               *)

\* pin dicts over names: distinct keys, at most n entries, any order
PinDicts(names, n) ==
    UNION {{s \in [1..k -> [name : names, width : Widths]] :
                \A i, j \in 1..k : i # j => s[i].name # s[j].name} : k \in 0..n}

\* test cases that give every name of names a value
TestCases(names, values, codes) == [vals : [names -> values], wait : codes]

\* lists of at most n elements of S
Lists(S, n) == UNION {[1..k -> S] : k \in 0..n}

File(ip, op, clocked, clock_pin, period, gp, tcs) ==
    [library |-> "work", entity |-> "dut", architecture |-> "rtl",
     generic_params |-> gp,
     clocked |-> clocked, clock_pin |-> clock_pin, clock_period |-> period,
     input_pins |-> ip, output_pins |-> op, test_cases |-> tcs]

ClockChoices(names, periods) ==
    {[clocked |-> FALSE, clock_pin |-> "clk", clock_period |-> 2]}
    \cup [clocked : {TRUE}, clock_pin : names, clock_period : periods]

ScalarPin(n) == [name |-> n, width |-> None]

\* any pins and widths, at most one test case with a fixed wait
PinFiles ==
    {File(ip, op, c.clocked, c.clock_pin, c.clock_period, <<>>, tcs) :
        ip \in PinDicts(PinNames, MaxInPins),
        op \in PinDicts(PinNames, Cardinality(PinNames)),
        c \in ClockChoices(ClockNames, {2}),
        tcs \in Lists(TestCases(PinNames, Values, {Some(0)}), 1)}

\* an inverter a -> b with scalar pins, any list of rows of its truth table,
\* any wait code or none
VectorFiles ==
    {File(<<ScalarPin("a")>>, <<ScalarPin("b")>>, c.clocked, c.clock_pin, c.clock_period,
          <<>>, tcs) :
        c \in ClockChoices({"clk"}, 1..MaxPeriod),
        tcs \in Lists({tc \in TestCases({"a", "b"}, {"0", "1"}, WaitCodes) :
                           tc.vals["a"] # tc.vals["b"]}, MaxVectors)}

\* a unit under test with generic parameters
GenericFiles ==
    {File(<<ScalarPin("a")>>, <<ScalarPin("b")>>, FALSE, "clk", 2, gp, <<>>) :
        gp \in {<<[param |-> "N", val |-> "8"]>>,
                <<[param |-> "N", val |-> "8"], [param |-> "M", val |-> "2"]>>}}

\* a test case that lacks the value of a declared pin
PartialFiles ==
    {File(<<ScalarPin("a")>>, <<ScalarPin("b")>>, FALSE, "clk", 2, <<>>, <<tc>>) :
        tc \in UNION {TestCases(ns, {"1"}, {Some(0)}) : ns \in (SUBSET {"a", "b"}) \ {{"a", "b"}}}}

\* files whose VHDL a simulator accepts: one input, one or two outputs
SimFiles ==
    {File(<<ScalarPin("a")>>, op, c.clocked, c.clock_pin, c.clock_period, <<>>, tcs) :
        op \in {<<ScalarPin("b")>>, <<ScalarPin("b"), ScalarPin("y")>>},
        c \in ClockChoices({"clk"}, 1..MaxPeriod),
        tcs \in Lists(TestCases({"a", "b", "y"}, {"1"},
                                {Some(c) : c \in (-MaxWait)..MaxWait}), MaxVectors)}

InitOn(files) ==
    /\ json_file \in files
    /\ data = <<>>
    /\ pc = "start"
    /\ err = ""
    /\ out_file = [opened |-> FALSE, text |-> <<>>]
    /\ sim = SimOff

Init == InitOn(PinFiles \cup VectorFiles \cup GenericFiles \cup PartialFiles)

Next == Load \/ Generate

Spec == Init /\ [][Next]_vars

InitSim == InitOn(SimFiles)

NextSim == Load \/ Generate \/ SimStart \/ ClockProcess \/ TbStimulus \/ TbCheck
           \/ TbFooter \/ Advance

SpecSim == InitSim /\ [][NextSim]_vars

----------------------------------------------------------------------------
(* Properties of load and generate (specification Spec).                   *)

Written == pc = "written"

\* the wait code of the i-th test case of the file
WaitCode(i) == json_file.test_cases[i].wait[1]

\* C1: in a written test bench, every test case has the wait statement its
\* wait code selects: N > 0 a call of wait_until_clk_edges on the clock
\* signal for N rising edges, N < 0 a call for |N| falling edges, 0 the
\* fixed wait of 10 ns, clocked or not.
C1_WaitStatement ==
    Written =>
        /\ Len(Text.test_cases) = Len(json_file.test_cases)
        /\ \A i \in 1..Len(Text.test_cases) :
            LET w == Text.test_cases[i].wait
                N == WaitCode(i)
            IN  /\ N > 0 => w = [call |-> "wait_until_clk_edges",
                                 clk |-> "tb_" \o json_file.clock_pin,
                                 n |-> N, rising |-> TRUE]
                /\ N < 0 => w = [call |-> "wait_until_clk_edges",
                                 clk |-> "tb_" \o json_file.clock_pin,
                                 n |-> 0 - N, rising |-> FALSE]
                /\ N = 0 => w = [call |-> "wait for", n |-> 10]

C1_Witness ==
    /\ Written
    /\ json_file.clocked
    /\ Len(json_file.test_cases) = 2
    /\ WaitCode(1) = 2
    /\ WaitCode(2) = -2

\* C2: a written test bench has one test case block per test case of the
\* file, in the file's order; the block at 0-based position i has i in its
\* comment and in its report, assigns the input values of test case i and
\* compares with the expected output values of test case i.
C2_BlockPerVector ==
    Written =>
        /\ Len(Text.test_cases) = Len(json_file.test_cases)
        /\ \A i \in 1..Len(Text.test_cases) :
            LET b == Text.test_cases[i]
                t == data.test_cases[i]
            IN  /\ b.comment = i - 1
                /\ b.report = i - 1
                /\ Len(b.assigns) = Len(data.input_pins)
                /\ \A k \in 1..Len(b.assigns) :
                      b.assigns[k] = [signal |-> "tb_" \o data.input_pins[k].name,
                                      lit |-> t.vals[data.input_pins[k].name]]
                /\ Len(b.assert.terms) = Len(data.output_pins)
                /\ Len(b.guard.terms) = Len(data.output_pins)
                /\ \A k \in 1..Len(data.output_pins) :
                      /\ b.assert.terms[k].signal = "tb_" \o data.output_pins[k].name
                      /\ b.assert.terms[k].lit = t.vals[data.output_pins[k].name]
                      /\ b.guard.terms[k].signal = "tb_" \o data.output_pins[k].name
                      /\ b.guard.terms[k].lit = t.vals[data.output_pins[k].name]

C2_Witness ==
    /\ Written
    /\ Len(Text.test_cases) = 2
    /\ json_file.test_cases[1].vals # json_file.test_cases[2].vals
    /\ Text.test_cases[1].assigns # Text.test_cases[2].assigns

\* every literal a test case block has for the signal of pin p
PinLiterals(b, p) ==
    {b.assigns[k].lit : k \in {j \in 1..Len(b.assigns) : b.assigns[j].signal = "tb_" \o p}}
    \cup {b.assert.terms[k].lit :
            k \in {j \in 1..Len(b.assert.terms) : b.assert.terms[j].signal = "tb_" \o p}}
    \cup {b.guard.terms[k].lit :
            k \in {j \in 1..Len(b.guard.terms) : b.guard.terms[j].signal = "tb_" \o p}}

\* the literal is q, then text, then q
Quoted(lit, q, text) ==
    /\ Len(lit) >= 2
    /\ SubSeq(lit, 1, 1) = q
    /\ SubSeq(lit, Len(lit), Len(lit)) = q
    /\ SubSeq(lit, 2, Len(lit) - 1) = text

\* the pins of the file declared once, as input or as output
DeclaredOnce ==
    {e \in {json_file.input_pins[i] : i \in 1..Len(json_file.input_pins)}
           \cup {json_file.output_pins[i] : i \in 1..Len(json_file.output_pins)} :
        ~(e.name \in KeySet(json_file.input_pins) /\ e.name \in KeySet(json_file.output_pins))}

\* C3 as claimed: every literal of a pin without width is single-quoted,
\* every literal of a pin of (positive) width W is double-quoted and has
\* exactly W characters between the quotes.
C3_Original ==
    Written =>
        \A i \in 1..Len(Text.test_cases) : \A e \in DeclaredOnce :
            \A lit \in PinLiterals(Text.test_cases[i], e.name) :
                LET v == json_file.test_cases[i].vals[e.name]
                IN  /\ e.width = None => Quoted(lit, "'", v)
                    /\ (e.width # None /\ e.width[1] > 0) =>
                          /\ Quoted(lit, "\"", v)
                          /\ Len(lit) - 2 = e.width[1]

\* C3: every literal of a pin is the value the file gives, verbatim, between
\* quotes: single quotes when the pin's width is absent (or 0), double
\* quotes when it is any other integer; a name declared as input and as
\* output has the width of the output declaration.  Its length is the length
\* of the given value, whatever the width.
C3_Quoting ==
    Written =>
        LET pins == DictMerge(json_file.input_pins, json_file.output_pins)
        IN  \A i \in 1..Len(Text.test_cases) : \A k \in 1..Len(pins) :
              \A lit \in PinLiterals(Text.test_cases[i], pins[k].name) :
                LET v == json_file.test_cases[i].vals[pins[k].name]
                    w == pins[k].width
                IN  /\ (w = None \/ w = Some(0)) => Quoted(lit, "'", v)
                    /\ (w # None /\ w # Some(0)) => Quoted(lit, "\"", v)
                    /\ Len(lit) = Len(v) + 2

C3_Witness ==
    /\ Written
    /\ json_file.input_pins = <<[name |-> "a", width |-> None]>>
    /\ json_file.output_pins = <<[name |-> "b", width |-> Some(2)]>>
    /\ Len(Text.test_cases) = 1
    /\ Text.test_cases[1].assigns[1].lit = "'1'"
    /\ Text.test_cases[1].assert.terms[1].lit = "\"10\""

\* some test case of the file has a nonzero wait code
NonzeroWait ==
    \E i \in 1..Len(json_file.test_cases) :
        json_file.test_cases[i].wait # None /\ WaitCode(i) # 0

\* C4: for an unclocked entity with a nonzero wait code in some test case the
\* script ends in an error and the output file is never opened.
C4_UnclockedNonzeroWait ==
    (~json_file.clocked /\ NonzeroWait) =>
        /\ ~out_file.opened
        /\ pc \in {"start", "loaded", "failed"}
        /\ pc = "failed" => err # ""

C4_Witness ==
    /\ ~json_file.clocked
    /\ NonzeroWait
    /\ pc = "failed"
    /\ err = "StopIteration"
    /\ ~out_file.opened

\* a pin of the file with a width that is 0 or negative
BadWidth ==
    \E e \in {json_file.input_pins[i] : i \in 1..Len(json_file.input_pins)}
             \cup {json_file.output_pins[i] : i \in 1..Len(json_file.output_pins)} :
        e.width # None /\ e.width[1] <= 0

\* C5 as claimed: with a pin of width 0 or negative, load or generate fails
\* and no signal declaration is written.
C5_Claim == BadWidth => ~Written

\* C6 as claimed: with an empty output pin dict generate fails and writes no
\* file.
C6_Claim == json_file.output_pins = <<>> => (~Written /\ ~out_file.opened)

\* a name is in more than one of the input, output and clock pin sets
DuplicatePin ==
    LET i == KeySet(json_file.input_pins)
        o == KeySet(json_file.output_pins)
        c == IF json_file.clocked THEN {json_file.clock_pin} ELSE {}
    IN  (i \cap o) \cup (i \cap c) \cup (o \cap c) # {}

\* C7 as claimed: a file with a name in more than one pin set is rejected by
\* load, and no written test bench declares a signal twice.
C7_Claim ==
    /\ DuplicatePin => pc \in {"start", "failed"}
    /\ Written => \A i, j \in 1..Len(Text.signals) :
                      i # j => Text.signals[i].signal # Text.signals[j].signal

\* the file is complete but for wait codes: every test case has a value for
\* every pin, and a test case that has a wait code has one the entity allows
CompleteButWait ==
    /\ \A i \in 1..Len(json_file.test_cases) :
          /\ KeySet(json_file.input_pins) \cup KeySet(json_file.output_pins)
                \subseteq DOMAIN json_file.test_cases[i].vals
          /\ json_file.test_cases[i].wait # None =>
                (json_file.clocked \/ WaitCode(i) = 0)

\* C8 as claimed: a test case without a wait code is a fixed wait: load and
\* generate succeed and its block has the wait of 10 ns.
C8_Claim ==
    CompleteButWait =>
        /\ pc # "failed"
        /\ Written => \A i \in 1..Len(json_file.test_cases) :
                json_file.test_cases[i].wait = None =>
                    Text.test_cases[i].wait = [call |-> "wait for", n |-> 10]

----------------------------------------------------------------------------
(* Properties of the emitted processes (specification SpecSim).            *)

\* the reports of test case assertions that failed
FailedReports == {i \in 1..Len(sim.reports) : sim.reports[i].report = "Test case failed!"}

\* the reports of the footer
FooterReports == {i \in 1..Len(sim.reports) : sim.reports[i].num = -1}

C9_State ==
    sim.on =>
        /\ \A i \in 1..Len(Text.test_cases) :
              \A obs \in Observations(Text.test_cases[i]) :
                 EvalCondition(Text.test_cases[i].guard, obs)
                    <=> ~EvalCondition(Text.test_cases[i].assert, obs)
        /\ sim.fail_count = Cardinality(FailedReports)
        /\ sim.tb_at # "suspended" => FooterReports = {}
        /\ sim.tb_at = "suspended" =>
              /\ sim.tb_case = Len(Text.test_cases)
              /\ FooterReports = {Len(sim.reports)}
              /\ sim.reports[Len(sim.reports)] =
                    IF FailedReports = {}
                    THEN [report |-> "All tests passed!", num |-> -1, severity |-> "note"]
                    ELSE [report |-> "Testbench failed!", num |-> -1, severity |-> "error"]

C9_Step ==
    sim.tb_at = "suspended" =>
        /\ sim'.tb_at = "suspended"
        /\ sim'.reports = sim.reports
        /\ sim'.fail_count = sim.fail_count

\* C9: in the test bench process (output pins not empty) the condition of a
\* test case's if statement is true exactly when the condition of its assert
\* is false, whatever the output signals show; fail_count is the number of
\* test cases whose assert failed; after the last test case the footer
\* reports "All tests passed!" at severity note iff none failed and
\* "Testbench failed!" at severity error otherwise; the process then stays
\* suspended and reports and counts nothing more.
C9_FailCount == [](C9_State) /\ [][C9_Step]_vars

C9_Witness ==
    /\ sim.on
    /\ sim.tb_at = "suspended"
    /\ Len(Text.test_cases) = 2
    /\ Len(Text.test_cases[1].assert.terms) = 2
    /\ sim.fail_count = 1
    /\ sim.now > 0

\* C10 as claimed: the clock process waits a positive time after each drive
\* and one low-high cycle of the clock lasts clock_period ns.
C10_Claim ==
    (sim.on /\ Clocked) =>
        /\ Text.clock_process[1].half > 0
        /\ sim.clk_cycle >= 0 => sim.clk_cycle = json_file.clock_period

====
